---------------------------- MODULE Spec2Model ----------------------------
(***************************************************************************)
(* Markdown-to-slide compiler of the PPTX generator module                 *)
(* (src/unnamed/part_001): parseMarkdown, parseBullets,                    *)
(* parseContentElements, fixForGoogleSlides, the layout loop of           *)
(* addContentSlide and generatePresentation with its final steps (write    *)
(* the temp file, post-process it, delete it).                             *)
(* The WebSocket message handler of the LLM client                         *)
(* (src/LLM Client/mcp-server-2.js) and the tool handler of the generator  *)
(* server (src/pptGeneratorServer/index.js) are modelled at the end.       *)
(*                                                                         *)
(* A JavaScript string is modelled as a sequence of one-character strings, *)
(* so that split, trim, replace and the regular expressions are computed   *)
(* character by character as the code computes them.  Lengths in inches    *)
(* are modelled in hundredths of an inch (0.9 -> 90, 5.0 -> 500).          *)
(***************************************************************************)
EXTENDS Integers, Sequences, FiniteSets, TLC

VARIABLES
  \* parseContentElements
  content, pc, workingContent, codeBlocks, lines, tables, finalLines,
  lineIdx, currentBulletBlock, currentTextBlock, elements,
  \* parseMarkdown / generatePresentation
  body, mdpc, slides, slideIdx, deck,
  \* layout loop of addContentSlide
  layElements, layIdx, yPos, placements, laypc,
  \* fixForGoogleSlides
  fxIn, fxIdx, imageCounter, imageRenames, newZip, fxOut, fxpc, fxReapplied,
  \* the final steps of generatePresentation, for two calls
  outputPath, gpc, files, steps, failure, fixFault,
  \* the WebSocket message handler of the LLM client and the tool handler
  wsInput, wspc, sent, toolResult, produced

pceVars == <<content, pc, workingContent, codeBlocks, lines, tables,
             finalLines, lineIdx, currentBulletBlock, currentTextBlock,
             elements>>
mdVars  == <<body, mdpc, slides, slideIdx, deck>>
layVars == <<layElements, layIdx, yPos, placements, laypc>>
fxVars  == <<fxIn, fxIdx, imageCounter, imageRenames, newZip, fxOut, fxpc,
             fxReapplied>>
genVars == <<outputPath, gpc, files, steps, failure, fixFault>>
wsVars  == <<wsInput, wspc, sent, toolResult, produced>>
restVars == <<fxVars, genVars, wsVars>>
vars    == <<pceVars, mdVars, layVars, restVars>>

-----------------------------------------------------------------------------
(* Bounds of the model *)

\* number of input chunks joined into one slide body
MaxChunks == 3
\* number of input lines joined into one document body
MaxDocLines == 3
\* number of content elements handed to the layout loop
MaxElements == 4
\* largest number of bullets, code lines or table rows of one element
MaxCount == 8

-----------------------------------------------------------------------------
(* JavaScript string primitives on sequences of characters *)

Min(S) == CHOOSE x \in S : \A y \in S : x <= y

Max(S) == CHOOSE x \in S : \A y \in S : x >= y

Last1(s) == s[Len(s)]

\* the characters \s matches that occur in the modelled inputs
IsSpace(c) == c \in {" ", "\n"}

Letters ==
  {"a","b","c","d","e","f","g","h","i","j","k","l","m","n","o","p","q","r",
   "s","t","u","v","w","x","y","z",
   "A","B","C","D","E","F","G","H","I","J","K","L","M","N","O","P","Q","R",
   "S","T","U","V","W","X","Y","Z"}

Digits == <<"0","1","2","3","4","5","6","7","8","9">>

IsDigit(c) == \E d \in 1..10 : Digits[d] = c

\* \w
IsWord(c) == c \in Letters \/ IsDigit(c) \/ c = "_"

\* String.prototype.toLowerCase, on the letters the inputs use
LowerChar(c) ==
  CASE c = "P" -> "p" [] c = "L" -> "l" [] c = "A" -> "a" [] c = "N" -> "n"
    [] c = "Z" -> "z" [] c = "T" -> "t" [] OTHER -> c

ToLowerCase(s) == [i \in 1..Len(s) |-> LowerChar(s[i])]

\* s.substring(from - 1): the suffix starting at 1-based position from
Suffix(s, from) == SubSeq(s, from, Len(s))

\* String.prototype.trim
Trim(s) ==
  LET keep == {i \in 1..Len(s) : ~IsSpace(s[i])}
  IN  IF keep = {} THEN <<>> ELSE SubSeq(s, Min(keep), Max(keep))

\* s.startsWith(pat, p - 1), p a 1-based position
StartsWithAt(s, p, pat) ==
  /\ p >= 1
  /\ p + Len(pat) - 1 <= Len(s)
  /\ SubSeq(s, p, p + Len(pat) - 1) = pat

\* s.indexOf(pat, from - 1) + 1: the first 1-based position >= from at which
\* pat occurs, 0 when there is none
IndexOf(s, pat, from) ==
  LET hits == {i \in from..(Len(s) - Len(pat) + 1) : StartsWithAt(s, i, pat)}
  IN  IF hits = {} THEN 0 ELSE Min(hits)

Includes(s, pat) == IndexOf(s, pat, 1) # 0

\* s.split(c) for a one-character separator c
RECURSIVE Split(_, _)
Split(s, c) ==
  LET i == IndexOf(s, <<c>>, 1)
  IN  IF i = 0 THEN <<s>>
      ELSE <<SubSeq(s, 1, i - 1)>> \o Split(Suffix(s, i + 1), c)

\* parts.join(c)
RECURSIVE Join(_, _)
Join(parts, c) ==
  IF parts = <<>> THEN <<>>
  ELSE IF Len(parts) = 1 THEN parts[1]
  ELSE parts[1] \o <<c>> \o Join(Tail(parts), c)

\* s.replace(pat, by) with a string pattern: the first occurrence only
ReplaceFirst(s, pat, by) ==
  LET i == IndexOf(s, pat, 1)
  IN  IF i = 0 THEN s
      ELSE SubSeq(s, 1, i - 1) \o by \o Suffix(s, i + Len(pat))

\* the decimal digits of n, as template literals print a number
RECURSIVE ToDecimal(_)
ToDecimal(n) ==
  IF n < 10 THEN <<Digits[n + 1]>>
  ELSE ToDecimal(n \div 10) \o <<Digits[(n % 10) + 1]>>

\* the length of the longest run of \w characters starting at position p
\* (a greedy \w*)
WordRunLen(s, p) ==
  LET stop == {i \in p..Len(s) : ~IsWord(s[i])}
  IN  (IF stop = {} THEN Len(s) + 1 ELSE Min(stop)) - p

\* the length of the longest run of digits starting at position p (\d+)
DigitRunLen(s, p) ==
  LET stop == {i \in p..Len(s) : ~IsDigit(s[i])}
  IN  (IF stop = {} THEN Len(s) + 1 ELSE Min(stop)) - p

\* the length of the longest run of whitespace starting at position p (\s*)
SpaceRunLen(s, p) ==
  LET stop == {i \in p..Len(s) : ~IsSpace(s[i])}
  IN  (IF stop = {} THEN Len(s) + 1 ELSE Min(stop)) - p

-----------------------------------------------------------------------------
(* parseBullets *)

\* [-*\u2022]: the markers; no modelled input holds U+2022
BulletChars == {"-", "*"}

\* /^(\s*)[-*\u2022]\s+(.+)$/ on one line: the leading whitespace, the marker,
\* whitespace, then at least one more character.  \s+ gives back its last
\* character to (.+) when nothing else follows it.
BulletMatch(line) ==
  LET ind  == SpaceRunLen(line, 1)
      m    == ind + 1
      ws   == SpaceRunLen(line, m + 1)
      rest == Suffix(line, m + 1 + ws)
  IN  IF m <= Len(line) /\ line[m] \in BulletChars /\ ws >= 1
         /\ (rest # <<>> \/ ws >= 2)
      THEN [matched |-> TRUE,
            text    |-> IF rest # <<>> THEN rest ELSE <<line[Len(line)]>>,
            level   |-> ind \div 2]
      ELSE [matched |-> FALSE, text |-> <<>>, level |-> 0]

RECURSIVE BulletsOfLines(_)
BulletsOfLines(ls) ==
  IF ls = <<>> THEN <<>>
  ELSE LET m == BulletMatch(Head(ls))
       IN  (IF m.matched THEN <<[text |-> m.text, level |-> m.level]>>
            ELSE <<>>) \o BulletsOfLines(Tail(ls))

parseBullets(c) == BulletsOfLines(Split(c, "\n"))

-----------------------------------------------------------------------------
(* parseContentElements *)

\* the backtick character: a TLA+ string cannot hold it, so the model writes
\* it as an apostrophe, which no modelled input uses otherwise
Backtick == "'"

Fence == <<Backtick, Backtick, Backtick>>

CodePrefix == <<"_","_","C","O","D","E","_","B","L","O","C","K","_">>

TablePrefix == <<"_","_","T","A","B","L","E","_">>

Underscores == <<"_", "_">>

\* `__CODE_BLOCK_${n}__`
CodePlaceholder(n) == CodePrefix \o ToDecimal(n) \o Underscores

\* `__TABLE_${n}__`
TablePlaceholder(n) == TablePrefix \o ToDecimal(n) \o Underscores

\* codeRegex.exec(s) with lastIndex = from - 1, for
\* /```(\w*)\r?\n([\s\S]*?)```/g : the leftmost position at which a fence is
\* followed by a run of \w, a newline and, lazily, the next fence.  (No
\* modelled input holds "\r".)
CodeStarts(s, from) ==
  {i \in from..Len(s) :
     /\ StartsWithAt(s, i, Fence)
     /\ LET j == i + 3 + WordRunLen(s, i + 3)
        IN  /\ j <= Len(s)
            /\ s[j] = "\n"
            /\ IndexOf(s, Fence, j + 1) # 0}

CodeExec(s, from) ==
  LET i == Min(CodeStarts(s, from))
      j == i + 3 + WordRunLen(s, i + 3)
      k == IndexOf(s, Fence, j + 1)
  IN  [index |-> i,
       all   |-> SubSeq(s, i, k + 2),
       lang  |-> SubSeq(s, i + 3, j - 1),
       inner |-> SubSeq(s, j + 1, k - 1),
       next  |-> k + 3]

TextLanguage == <<"t", "e", "x", "t">>

\* the while loop over codeRegex.exec(content): st = [working, blocks]
RECURSIVE ExtractCodeBlocks(_, _, _)
ExtractCodeBlocks(s, from, st) ==
  IF CodeStarts(s, from) = {} THEN st
  ELSE LET m  == CodeExec(s, from)
           ph == CodePlaceholder(Len(st.blocks))
       IN  ExtractCodeBlocks(s, m.next,
             [working |-> ReplaceFirst(st.working, m.all, ph),
              blocks  |-> Append(st.blocks,
                            [placeholder |-> ph,
                             language    |-> IF m.lang # <<>> THEN m.lang
                                             ELSE TextLanguage,
                             code        |-> Trim(m.inner),
                             src         |-> m.all])])

\* line.trim().startsWith('|') && line.trim().endsWith('|')
IsPipeDelimited(line) ==
  LET t == Trim(line) IN t # <<>> /\ t[1] = "|" /\ t[Len(t)] = "|"

\* lines[i].trim().startsWith('|')
StartsWithPipe(line) ==
  LET t == Trim(line) IN t # <<>> /\ t[1] = "|"

\* /^\|[\s:-]+\|/.test(tableLine) && tableLine.includes('---'), on the
\* untrimmed line
IsSeparatorRow(tableLine) ==
  LET stop == {i \in 2..Len(tableLine) :
                 ~(IsSpace(tableLine[i]) \/ tableLine[i] \in {":", "-"})}
      e    == IF stop = {} THEN Len(tableLine) + 1 ELSE Min(stop)
  IN  /\ Len(tableLine) >= 1
      /\ tableLine[1] = "|"
      /\ e >= 3
      /\ e <= Len(tableLine)
      /\ tableLine[e] = "|"
      /\ Includes(tableLine, <<"-", "-", "-">>)

\* tableLine.split('|').slice(1, -1).map(cell => cell.trim())
CellsOf(tableLine) ==
  LET parts == Split(tableLine, "|")
  IN  [i \in 1..(IF Len(parts) >= 2 THEN Len(parts) - 2 ELSE 0)
         |-> Trim(parts[i + 1])]

\* a data row takes the current flag; only the first pushed row can keep
\* isHeader = true (the flag is cleared after every push)
RowOf(cells, isHeader) == [cells |-> cells, isHeader |-> isHeader]

\* the for loop over tableLines: rows pushed so far, and the isHeader flag
RECURSIVE RowsOf(_, _, _)
RowsOf(tableLines, isHeader, rows) ==
  IF tableLines = <<>> THEN rows
  ELSE LET tableLine == Head(tableLines)
       IN  IF IsSeparatorRow(tableLine)
           THEN RowsOf(Tail(tableLines), FALSE, rows)
           ELSE IF Len(CellsOf(tableLine)) > 0
                THEN RowsOf(Tail(tableLines), FALSE,
                            Append(rows, RowOf(CellsOf(tableLine), isHeader)))
                ELSE RowsOf(Tail(tableLines), isHeader, rows)

\* the inner while: the index after the run of lines starting with '|'
RunEnd(ls, i) ==
  LET stop == {k \in i..Len(ls) : ~StartsWithPipe(ls[k])}
  IN  IF stop = {} THEN Len(ls) + 1 ELSE Min(stop)

\* what a run of tableLines leaves behind: a run of fewer than 2 lines, or
\* one without data rows, pushes nothing to newLines nor to tables
\* (first: the index in lines of the first line of the run)
TableOfRun(tableLines, first, st) ==
  LET rows == RowsOf(tableLines, TRUE, <<>>)
      ph   == TablePlaceholder(Len(st.tables))
  IN  IF Len(tableLines) >= 2 /\ Len(rows) > 0
      THEN [newLines |-> Append(st.newLines, ph),
            tables   |-> Append(st.tables,
                           [placeholder |-> ph, rows |-> rows,
                            src |-> tableLines, first |-> first])]
      ELSE st

\* the while loop over lines: st = [newLines, tables]
RECURSIVE ExtractTables(_, _, _)
ExtractTables(ls, i, st) ==
  IF i > Len(ls) THEN st
  ELSE IF IsPipeDelimited(ls[i])
       THEN LET e == RunEnd(ls, i)
            IN  ExtractTables(ls, e, TableOfRun(SubSeq(ls, i, e - 1), i, st))
       ELSE ExtractTables(ls, i + 1,
              [st EXCEPT !.newLines = Append(@, ls[i])])

\* line.match(/__CODE_BLOCK_(\d+)__/) and line.match(/__TABLE_(\d+)__/):
\* the token anywhere in the line
HasToken(line, prefix) ==
  \E p \in 1..Len(line) :
    /\ StartsWithAt(line, p, prefix)
    /\ LET d == DigitRunLen(line, p + Len(prefix))
       IN  d >= 1 /\ StartsWithAt(line, p + Len(prefix) + d, Underscores)

\* /^\s*[-*\u2022]\s+/.test(line)
IsBulletLine(line) ==
  LET m == SpaceRunLen(line, 1) + 1
  IN  /\ m + 1 <= Len(line)
      /\ line[m] \in BulletChars
      /\ IsSpace(line[m + 1])

\* array.find(x => x.placeholder === line.trim()): the first one, if any
FindByPlaceholder(list, line) ==
  LET hits == {k \in 1..Len(list) : list[k].placeholder = Trim(line)}
  IN  IF hits = {} THEN 0 ELSE Min(hits)

\* The elements carry, beside the fields of the code, the index of the first
\* line of finalLines they were made from (line) and, for a code block or a
\* table, the text it was extracted from (src).
FlushText(els, textBlock, n) ==
  IF Len(textBlock) > 0
  THEN Append(els, [type |-> "text",
                    content |-> Trim(Join(textBlock, "\n")),
                    line |-> n - Len(textBlock)])
  ELSE els

FlushBullets(els, bulletBlock, n) ==
  IF Len(bulletBlock) > 0
  THEN Append(els, [type |-> "bullets",
                    content |-> Join(bulletBlock, "\n"),
                    line |-> n - Len(bulletBlock)])
  ELSE els

CodeElement(cb, n) ==
  [type |-> "code", language |-> cb.language, code |-> cb.code,
   src |-> cb.src, line |-> n]

TableElement(t, n) ==
  [type |-> "table", rows |-> t.rows, src |-> t.src, first |-> t.first,
   line |-> n]

\* PlaceholderStep with the element pushed before the open blocks are flushed
PlaceholderStepEmitFirst(els, textBlock, bulletBlock, n, el) ==
  FlushBullets(FlushText(els \o el, textBlock, n), bulletBlock, n)

\* a placeholder line: flush the text block, flush the bullet block, then
\* push the element found for the line (el = <<>> when find returns nothing)
PlaceholderStep(els, textBlock, bulletBlock, n, el) ==
  FlushBullets(FlushText(els, textBlock, n), bulletBlock, n) \o el

-----------------------------------------------------------------------------
(* Slide bodies handed to parseContentElements *)

cText == <<"a">>

cBullet == <<"-", " ", "b">>

cEmptyBullet == <<"-", " ">>

cBlank == <<>>

cRow == <<"|", "a", "|">>

cSeparator == <<"|", "-", "-", "-", "|">>

cIndentedSeparator == <<" ", "|", "-", "-", "-", "|">>

\* a fenced block with a language tag, the fences on lines of their own
cCodeJs == Fence \o <<"j", "s", "\n", "x", "\n">> \o Fence

\* a fenced block without a language tag
cCodePlain == Fence \o <<"\n", "y", "\n">> \o Fence

\* a fence alone on its line
cFence == Fence

\* a fenced block whose opening fence follows text on the same line
cInlineCode == <<"a", " ">> \o Fence \o <<"\n", "x", "\n">> \o Fence

\* text shaped like a placeholder token
cCodeToken == CodePlaceholder(0)

ChunkSet ==
  {cText, cBullet, cEmptyBullet, cBlank, cRow, cSeparator,
   cIndentedSeparator, cCodeJs, cCodePlain, cFence, cInlineCode, cCodeToken}

ChunkLists == UNION {[1..n -> ChunkSet] : n \in 0..MaxChunks}

\* parseMarkdown hands over lines.slice(1).join('\n').trim()
Bodies == {Trim(Join(cs, "\n")) : cs \in ChunkLists}

-----------------------------------------------------------------------------
(* parseContentElements as a state machine: the extraction of the code     *)
(* blocks, the extraction of the tables, one step per line of finalLines,  *)
(* and the flush after the loop                                            *)

MdIdle ==
  /\ body = <<>> /\ mdpc = "idle" /\ slides = <<>> /\ slideIdx = 0
  /\ deck = <<>>

LayIdle ==
  /\ layElements = <<>> /\ layIdx = 0 /\ yPos = 0 /\ placements = <<>>
  /\ laypc = "idle"

FixIdle ==
  /\ fxIn = <<>> /\ fxIdx = 0 /\ imageCounter = 0 /\ imageRenames = <<>>
  /\ newZip = <<>> /\ fxOut = <<>> /\ fxpc = "idle" /\ fxReapplied = FALSE

GenIdle ==
  /\ outputPath = <<>> /\ gpc = <<>> /\ files = <<>> /\ steps = <<>>
  /\ failure = <<>> /\ fixFault = <<>>

WsIdle ==
  /\ wsInput = <<>> /\ wspc = <<>> /\ sent = <<>> /\ toolResult = <<>>
  /\ produced = <<>>

RestIdle == FixIdle /\ GenIdle /\ WsIdle

Init ==
  /\ content \in Bodies
  /\ pc = "code"
  /\ workingContent = content
  /\ codeBlocks = <<>>
  /\ lines = <<>>
  /\ tables = <<>>
  /\ finalLines = <<>>
  /\ lineIdx = 1
  /\ currentBulletBlock = <<>>
  /\ currentTextBlock = <<>>
  /\ elements = <<>>
  /\ MdIdle
  /\ LayIdle
  /\ RestIdle

ExtractCode ==
  /\ pc = "code"
  /\ LET st == ExtractCodeBlocks(content, 1,
                 [working |-> content, blocks |-> <<>>])
     IN  /\ workingContent' = st.working
         /\ codeBlocks' = st.blocks
  /\ pc' = "tables"
  /\ UNCHANGED <<content, lines, tables, finalLines, lineIdx,
                 currentBulletBlock, currentTextBlock, elements, mdVars,
                 layVars, restVars>>

ExtractTable ==
  /\ pc = "tables"
  /\ LET st == ExtractTables(Split(workingContent, "\n"), 1,
                 [newLines |-> <<>>, tables |-> <<>>])
     IN  /\ lines' = Split(workingContent, "\n")
         /\ tables' = st.tables
         /\ workingContent' = Join(st.newLines, "\n")
         /\ finalLines' = Split(Join(st.newLines, "\n"), "\n")
  /\ lineIdx' = 1
  /\ pc' = "walk"
  /\ UNCHANGED <<content, codeBlocks, currentBulletBlock, currentTextBlock,
                 elements, mdVars, layVars, restVars>>

\* the block left as it is after its flush
KeepBlock(block) == block

\* currentTextBlock = []; currentBulletBlock = []; after the flush of a block
ResetBlock(block) == <<>>

WalkFrame ==
  UNCHANGED <<content, pc, workingContent, codeBlocks, lines, tables,
              finalLines, mdVars, layVars, restVars>>

\* if (codeMatch) { ... continue; }
WalkCodeLine ==
  /\ pc = "walk" /\ lineIdx <= Len(finalLines)
  /\ LET line == finalLines[lineIdx]
         k    == FindByPlaceholder(codeBlocks, line)
     IN  /\ HasToken(line, CodePrefix)
         /\ elements' = PlaceholderStep(elements, currentTextBlock,
                          currentBulletBlock, lineIdx,
                          IF k = 0 THEN <<>>
                          ELSE <<CodeElement(codeBlocks[k], lineIdx)>>)
  /\ currentTextBlock' = ResetBlock(currentTextBlock)
  /\ currentBulletBlock' = ResetBlock(currentBulletBlock)
  /\ lineIdx' = lineIdx + 1
  /\ WalkFrame

\* if (tableMatch) { ... continue; }
WalkTableLine ==
  /\ pc = "walk" /\ lineIdx <= Len(finalLines)
  /\ LET line == finalLines[lineIdx]
         k    == FindByPlaceholder(tables, line)
     IN  /\ ~HasToken(line, CodePrefix)
         /\ HasToken(line, TablePrefix)
         /\ elements' = PlaceholderStep(elements, currentTextBlock,
                          currentBulletBlock, lineIdx,
                          IF k = 0 THEN <<>>
                          ELSE <<TableElement(tables[k], lineIdx)>>)
  /\ currentTextBlock' = ResetBlock(currentTextBlock)
  /\ currentBulletBlock' = ResetBlock(currentBulletBlock)
  /\ lineIdx' = lineIdx + 1
  /\ WalkFrame

IsPlainLine(line) ==
  ~HasToken(line, CodePrefix) /\ ~HasToken(line, TablePrefix)

\* if (/^\s*[-*•]\s+/.test(line)) { ... }
WalkBulletLine ==
  /\ pc = "walk" /\ lineIdx <= Len(finalLines)
  /\ LET line == finalLines[lineIdx]
     IN  /\ IsPlainLine(line)
         /\ IsBulletLine(line)
         /\ elements' = FlushText(elements, currentTextBlock, lineIdx)
         /\ currentBulletBlock' = Append(currentBulletBlock, line)
  /\ currentTextBlock' = ResetBlock(currentTextBlock)
  /\ lineIdx' = lineIdx + 1
  /\ WalkFrame

\* else if (line.trim()) { ... }
WalkTextLine ==
  /\ pc = "walk" /\ lineIdx <= Len(finalLines)
  /\ LET line == finalLines[lineIdx]
     IN  /\ IsPlainLine(line)
         /\ ~IsBulletLine(line)
         /\ Trim(line) # <<>>
         /\ elements' = FlushBullets(elements, currentBulletBlock, lineIdx)
         /\ currentTextBlock' = Append(currentTextBlock, line)
  /\ currentBulletBlock' = ResetBlock(currentBulletBlock)
  /\ lineIdx' = lineIdx + 1
  /\ WalkFrame

\* else { ... }: a blank line
WalkBlankLine ==
  /\ pc = "walk" /\ lineIdx <= Len(finalLines)
  /\ LET line == finalLines[lineIdx]
     IN  /\ IsPlainLine(line)
         /\ ~IsBulletLine(line)
         /\ Trim(line) = <<>>
         /\ elements' = FlushBullets(
                          FlushText(elements, currentTextBlock, lineIdx),
                          currentBulletBlock, lineIdx)
  /\ currentTextBlock' = ResetBlock(currentTextBlock)
  /\ currentBulletBlock' = ResetBlock(currentBulletBlock)
  /\ lineIdx' = lineIdx + 1
  /\ WalkFrame

\* the two pushes after the loop, which leave the blocks as they are, and the
\* return
FinalFlush ==
  /\ pc = "walk" /\ lineIdx > Len(finalLines)
  /\ elements' = FlushBullets(FlushText(elements, currentTextBlock, lineIdx),
                              currentBulletBlock, lineIdx)
  /\ pc' = "done"
  /\ UNCHANGED <<content, workingContent, codeBlocks, lines, tables,
                 finalLines, lineIdx, currentTextBlock, currentBulletBlock,
                 mdVars, layVars, restVars>>

Next ==
  \/ ExtractCode
  \/ ExtractTable
  \/ WalkCodeLine
  \/ WalkTableLine
  \/ WalkBulletLine
  \/ WalkTextLine
  \/ WalkBlankLine
  \/ FinalFlush

Spec == Init /\ [][Next]_vars

-----------------------------------------------------------------------------
(* Vocabulary of the statements about parseContentElements *)

RECURSIVE Flatten(_)
Flatten(ss) == IF ss = <<>> THEN <<>> ELSE Head(ss) \o Flatten(Tail(ss))

NotSpace(c) == ~IsSpace(c)

StripSpace(s) == SelectSeq(s, NotSpace)

IsCodeElement(el) == el.type = "code"

IsTableElement(el) == el.type = "table"

IsTextElement(el) == el.type = "text"

\* the text of the body an element was made from
ElementSource(el) ==
  CASE el.type = "code"  -> el.src
    [] el.type = "table" -> Join(el.src, "\n")
    [] OTHER             -> el.content

\* the number of lines of finalLines an element was made from
ElementSpan(el) ==
  IF el.type \in {"text", "bullets"} THEN Len(Split(el.content, "\n")) ELSE 1

\* the maximal runs <<i, e>> of contiguous pipe-delimited lines among the
\* lines of the body (lines: the body with its fenced code taken out)
PipeRuns ==
  {r \in (1..Len(lines)) \X (1..Len(lines)) :
     /\ r[1] <= r[2]
     /\ \A k \in r[1]..r[2] : IsPipeDelimited(lines[k])
     /\ r[1] = 1 \/ ~IsPipeDelimited(lines[r[1] - 1])
     /\ r[2] = Len(lines) \/ ~IsPipeDelimited(lines[r[2] + 1])}

RunLines(r) == SubSeq(lines, r[1], r[2])

\* the lines of the body a Table element was made from
TableLinesOf(el) == el.first..(el.first + Len(el.src) - 1)

\* a separator row as the specification words it: pipe-delimited, only
\* dashes, colons and whitespace between the pipes, and a dash rule
IsDashRow(line) ==
  /\ IsPipeDelimited(line)
  /\ \A i \in 1..Len(line) : line[i] \in {"|", "-", ":", " "}
  /\ Includes(line, <<"-", "-", "-">>)

HasDashRow(ls) == \E k \in 1..Len(ls) : IsDashRow(ls[k])

\* the rows the specification expects of a run with a separator row: every
\* data row, a header exactly when it precedes the separator
RECURSIVE ExpectedRows(_, _)
ExpectedRows(ls, beforeSeparator) ==
  IF ls = <<>> THEN <<>>
  ELSE IF IsDashRow(Head(ls)) THEN ExpectedRows(Tail(ls), FALSE)
  ELSE <<[cells |-> CellsOf(Head(ls)), isHeader |-> beforeSeparator]>>
         \o ExpectedRows(Tail(ls), beforeSeparator)

-----------------------------------------------------------------------------
(* C4 *)

\* C4 (as claimed): a pipe-delimited line of the body without a contiguous
\* pipe-delimited neighbour is in no Table element, and its text is in a
\* Text element of the result.
C4_LonePipeLineIsText ==
  pc = "done" =>
    \A r \in PipeRuns :
      r[1] = r[2] =>
        /\ \A i \in 1..Len(elements) :
             IsTableElement(elements[i]) =>
               r[1] \notin TableLinesOf(elements[i])
        /\ \E i \in 1..Len(elements) :
             /\ IsTextElement(elements[i])
             /\ Includes(elements[i].content, Trim(lines[r[1]]))

-----------------------------------------------------------------------------
(* C5 *)

\* C5 (as claimed): every run of 2 or more contiguous pipe-delimited lines
\* that holds a dash separator row yields one Table element whose rows are
\* the data rows of the run, isHeader = true on those before the separator
\* and false on those after it, and no row for the separator.
C5_SeparatorMarksHeaders ==
  pc = "done" =>
    \A r \in PipeRuns :
      (r[2] > r[1] /\ HasDashRow(RunLines(r))) =>
        Cardinality({i \in 1..Len(elements) :
                       /\ IsTableElement(elements[i])
                       /\ elements[i].first = r[1]
                       /\ elements[i].src = RunLines(r)
                       /\ elements[i].rows = ExpectedRows(RunLines(r), TRUE)})
          = 1

-----------------------------------------------------------------------------
(* C6 *)

\* C6 (as claimed): the Table element of a run of 2 or more pipe-delimited
\* lines without a separator row has no row with isHeader = true.
C6_NoSeparatorNoHeader ==
  pc = "done" =>
    \A i \in 1..Len(elements) :
      (IsTableElement(elements[i]) /\ ~HasDashRow(elements[i].src)) =>
        \A k \in 1..Len(elements[i].rows) : ~elements[i].rows[k].isHeader

-----------------------------------------------------------------------------
(* C7 *)

CodeElements == SelectSeq(elements, IsCodeElement)

\* C7 (as claimed): the k terminated fenced regions of the body (the matches
\* of the fence pattern, wherever the fences sit on their lines) give exactly
\* k Code elements, in source order, the j-th with the j-th region's
\* language and trimmed body; without a terminated region, a line holding a
\* fence is emitted in a Text or Bullets element.
C7_OneCodeElementPerFence ==
  pc = "done" =>
    /\ Len(CodeElements) = Len(codeBlocks)
    /\ \A j \in 1..Len(CodeElements) :
         j <= Len(codeBlocks) =>
           /\ CodeElements[j].language = codeBlocks[j].language
           /\ CodeElements[j].code = codeBlocks[j].code
    /\ codeBlocks = <<>> =>
         \A k \in 1..Len(lines) :
           Includes(lines[k], Fence) =>
             \E i \in 1..Len(elements) :
               /\ elements[i].type \in {"text", "bullets"}
               /\ Includes(elements[i].content, Trim(lines[k]))

-----------------------------------------------------------------------------
(* C8 *)

-----------------------------------------------------------------------------
(* C9 *)

RECURSIVE ElementSources(_)
ElementSources(els) ==
  IF els = <<>> THEN <<>>
  ELSE <<ElementSource(Head(els))>> \o ElementSources(Tail(els))

\* C9 (as claimed): no content is lost or duplicated: the source spans of
\* the elements, concatenated in order, give back the body without its
\* blank separators.
C9_NoContentLostOrDuplicated ==
  pc = "done" =>
    StripSpace(Flatten(ElementSources(elements))) = StripSpace(content)

-----------------------------------------------------------------------------
(* parseMarkdown *)

\* '## '
HeaderMarker == <<"#", "#", " ">>

\* the matches of /^## /m: the marker at the start of the text or of a line
HeaderStarts(s) ==
  {p \in 1..Len(s) :
     /\ p = 1 \/ s[p - 1] = "\n"
     /\ StartsWithAt(s, p, HeaderMarker)}

\* body.split(/^## /m), continued from position from
RECURSIVE SplitSections(_, _)
SplitSections(s, from) ==
  LET later == {p \in HeaderStarts(s) : p >= from}
  IN  IF later = {} THEN <<Suffix(s, from)>>
      ELSE <<SubSeq(s, from, Min(later) - 1)>>
             \o SplitSections(s, Min(later) + Len(HeaderMarker))

\* .filter(s => s.trim())
NonBlank(section) == Trim(section) # <<>>

ContentType == <<"c", "o", "n", "t", "e", "n", "t">>

\* headerLine.match(/^\[(\w+)\]\s*(.*)$/)
HasTypeTag(headerLine) ==
  /\ Len(headerLine) >= 1
  /\ headerLine[1] = "["
  /\ WordRunLen(headerLine, 2) >= 1
  /\ 2 + WordRunLen(headerLine, 2) <= Len(headerLine)
  /\ headerLine[2 + WordRunLen(headerLine, 2)] = "]"

\* typeMatch[1].toLowerCase(), or 'content' without a match
TypeOf(headerLine) ==
  IF HasTypeTag(headerLine)
  THEN ToLowerCase(SubSeq(headerLine, 2, 1 + WordRunLen(headerLine, 2)))
  ELSE ContentType

\* typeMatch[2], or the header line without a match
TitleOf(headerLine) ==
  IF HasTypeTag(headerLine)
  THEN LET q == 3 + WordRunLen(headerLine, 2)
       IN  Suffix(headerLine, q + SpaceRunLen(headerLine, q))
  ELSE headerLine

\* the body of the for loop: the record pushed for one section.  The record
\* carries, beside the fields of the code, the header line it was made from.
SlideOf(section) ==
  LET sectionLines == Split(Trim(section), "\n")
      headerLine   == sectionLines[1]
  IN  [type    |-> TypeOf(headerLine),
       title   |-> TitleOf(headerLine),
       content |-> Trim(Join(Tail(sectionLines), "\n")),
       header  |-> headerLine]

RECURSIVE SlidesOf(_)
SlidesOf(sections) ==
  IF sections = <<>> THEN <<>>
  ELSE <<SlideOf(Head(sections))>> \o SlidesOf(Tail(sections))

\* the slides of parseMarkdown(content), body being matter(content).content
parseMarkdown(b) == SlidesOf(SelectSeq(SplitSections(b, 1), NonBlank))

-----------------------------------------------------------------------------
(* generatePresentation up to the assembled deck *)

PlanType == <<"p", "l", "a", "n">>

DividerType == <<"d", "i", "v", "i", "d", "e", "r">>

\* switch (slide.type) without its default branch: a type that is no case
\* label adds no slide
AddSlideForNoDefault(d, slide) ==
  IF slide.type = PlanType
  THEN Append(d, [kind |-> "plan", title |-> slide.title])
  ELSE IF slide.type = DividerType
  THEN Append(d, [kind |-> "divider", title |-> slide.title])
  ELSE IF slide.type \in {<<"c", "o", "d", "e">>, ContentType}
  THEN Append(d, [kind |-> "content", title |-> slide.title])
  ELSE d

\* switch (slide.type): addPlanSlide, addDividerSlide or addContentSlide,
\* each of which calls pptx.addSlide once
AddSlideFor(d, slide) ==
  IF slide.type = PlanType
  THEN Append(d, [kind |-> "plan", title |-> slide.title])
  ELSE IF slide.type = DividerType
  THEN Append(d, [kind |-> "divider", title |-> slide.title])
  ELSE Append(d, [kind |-> "content", title |-> slide.title])

TitleSlide == [kind |-> "title", title |-> <<>>]

ClosingSlide == [kind |-> "closing", title |-> <<>>]

-----------------------------------------------------------------------------
(* Document bodies (frontmatter removed) handed to parseMarkdown *)

hPlan == <<"#", "#", " ", "[", "p", "l", "a", "n", "]", " ", "T">>

hPlanUpper == <<"#", "#", " ", "[", "P", "L", "A", "N", "]", " ", "T">>

hDivider == <<"#", "#", " ", "[", "d", "i", "v", "i", "d", "e", "r", "]", " ", "T">>

hUnknown == <<"#", "#", " ", "[", "z", "z", "]", " ", "T">>

hNoTag == <<"#", "#", " ", "T">>

hEmpty == <<"#", "#", " ">>

DocLineSet ==
  {hPlan, hPlanUpper, hDivider, hUnknown, hNoTag, hEmpty, cText, cBullet,
   cBlank}

DocLineLists == UNION {[1..n -> DocLineSet] : n \in 0..MaxDocLines}

DocBodies == {Join(ls, "\n") : ls \in DocLineLists}

PceIdle ==
  /\ content = <<>> /\ pc = "idle" /\ workingContent = <<>>
  /\ codeBlocks = <<>> /\ lines = <<>> /\ tables = <<>>
  /\ finalLines = <<>> /\ lineIdx = 0
  /\ currentBulletBlock = <<>> /\ currentTextBlock = <<>> /\ elements = <<>>

InitMarkdown ==
  /\ body \in DocBodies
  /\ mdpc = "parse"
  /\ slides = <<>>
  /\ slideIdx = 1
  /\ deck = <<>>
  /\ PceIdle
  /\ LayIdle
  /\ RestIdle

\* const { frontmatter, slides } = parseMarkdown(markdown)
ParseDocument ==
  /\ mdpc = "parse"
  /\ slides' = parseMarkdown(body)
  /\ mdpc' = "title"
  /\ UNCHANGED <<body, slideIdx, deck, pceVars, layVars, restVars>>

\* addTitleSlide(pptx, config, frontmatter, baseDir)
AddTitleSlide ==
  /\ mdpc = "title"
  /\ deck' = Append(deck, TitleSlide)
  /\ slideIdx' = 1
  /\ mdpc' = "slides"
  /\ UNCHANGED <<body, slides, pceVars, layVars, restVars>>

\* one iteration of for (const slide of slides)
AddSlide ==
  /\ mdpc = "slides"
  /\ slideIdx <= Len(slides)
  /\ deck' = AddSlideFor(deck, slides[slideIdx])
  /\ slideIdx' = slideIdx + 1
  /\ UNCHANGED <<body, mdpc, slides, pceVars, layVars, restVars>>

\* addClosingSlide(pptx, config, baseDir)
AddClosingSlide ==
  /\ mdpc = "slides"
  /\ slideIdx > Len(slides)
  /\ deck' = Append(deck, ClosingSlide)
  /\ mdpc' = "assembled"
  /\ UNCHANGED <<body, slides, slideIdx, pceVars, layVars, restVars>>

NextMarkdown ==
  \/ ParseDocument
  \/ AddTitleSlide
  \/ AddSlide
  \/ AddClosingSlide

SpecMarkdown == InitMarkdown /\ [][NextMarkdown]_vars

-----------------------------------------------------------------------------
(* Vocabulary of the statements about parseMarkdown *)

BodyLines == Split(body, "\n")

\* the lines of the body that begin with the slide-header marker, in order
IsHeaderLine(line) == StartsWithAt(line, 1, HeaderMarker)

HeaderLines == SelectSeq(BodyLines, IsHeaderLine)

IsSuffixOf(t, s) == Len(t) <= Len(s) /\ Suffix(s, Len(s) - Len(t) + 1) = t

SlideTypeNames ==
  {<<"t", "i", "t", "l", "e">>,
   <<"b", "u", "l", "l", "e", "t">>,
   <<"p", "l", "a", "n">>,
   <<"d", "i", "v", "i", "d", "e", "r">>,
   <<"c", "o", "n", "t", "e", "n", "t">>,
   <<"i", "m", "a", "g", "e">>,
   <<"c", "o", "d", "e">>,
   <<"q", "u", "o", "t", "e">>,
   <<"c", "h", "a", "r", "t">>}

\* the bracketed tag of a header line, lower-cased; <<>> when it has none
TagOf(headerLine) ==
  IF HasTypeTag(headerLine)
  THEN ToLowerCase(SubSeq(headerLine, 2, 1 + WordRunLen(headerLine, 2)))
  ELSE <<>>

-----------------------------------------------------------------------------
(* C1 *)

\* C1 (as claimed): a body with N lines beginning with '## ' gives exactly N
\* slide records, the i-th made from the i-th header line (its title is the
\* end of that line), whatever precedes the first header or follows a header
\* on its line.
C1_OneRecordPerHeader ==
  mdpc # "parse" =>
    /\ Len(slides) = Len(HeaderLines)
    /\ \A i \in 1..Len(slides) :
         i <= Len(HeaderLines) =>
           IsSuffixOf(slides[i].title,
                      Suffix(HeaderLines[i], Len(HeaderMarker) + 1))

-----------------------------------------------------------------------------
(* C2 *)

\* C2 (as claimed): every record's type is one of the nine slide types; a
\* header whose tag is none of them, or that has no tag, gives type
\* 'content'; without a tag the title is the full header line.
C2_TypeIsKnownOrContent ==
  mdpc # "parse" =>
    \A i \in 1..Len(slides) :
      /\ slides[i].type \in SlideTypeNames
      /\ TagOf(slides[i].header) \notin SlideTypeNames =>
           slides[i].type = ContentType
      /\ TagOf(slides[i].header) = <<>> =>
           slides[i].title = slides[i].header

-----------------------------------------------------------------------------
(* C3 *)

\* C3 (as claimed): the deck of a document with N records has N + 1 slides:
\* one per record, in record order, then the closing slide.
C3_DeckIsRecordsPlusClosing ==
  mdpc = "assembled" =>
    /\ Len(deck) = Len(slides) + 1
    /\ \A i \in 1..Len(slides) :
         i <= Len(deck) => deck[i] = Last1(AddSlideFor(<<>>, slides[i]))
    /\ deck[Len(deck)] = ClosingSlide

\* C3 (amended): the deck of a document with N records has N + 2 slides: the
\* title slide, one slide per record in record order (a plan, divider or
\* content slide by the record's type, any other type as content), then the
\* closing slide.
C3_DeckIsTitleRecordsClosing ==
  mdpc = "assembled" =>
    /\ Len(deck) = Len(slides) + 2
    /\ deck[1] = TitleSlide
    /\ \A i \in 1..Len(slides) :
         /\ deck[i + 1].title = slides[i].title
         /\ deck[i + 1].kind =
              (IF slides[i].type = PlanType THEN "plan"
               ELSE IF slides[i].type = DividerType THEN "divider"
               ELSE "content")
    /\ deck[Len(deck)] = ClosingSlide

\* the two-slide document of the specification: a divider, then a content
\* slide, here followed by a slide of an unknown type
C3_Witness ==
  /\ mdpc = "assembled"
  /\ Len(slides) = 3
  /\ slides[1].type = DividerType
  /\ slides[2].type = ContentType
  /\ slides[3].type \notin SlideTypeNames

-----------------------------------------------------------------------------
(* The layout loop of addContentSlide.  Lengths are in hundredths of an    *)
(* inch, so the sums are exact where the code adds floating-point numbers. *)

\* let yPos = 0.9
TopOffset == 90

\* const maxY = 5.0
MaxY == 500

\* bullets.length * 0.4
BulletHeight == 40

\* yPos += estimatedHeight + 0.15
BulletGap == 15

\* Math.min(1.2, maxY - yPos)
TextHeight == 120

\* yPos += textHeight + 0.1
TextGap == 10

\* codeLines * 0.28
CodeLineHeight == 28

\* Math.max(codeLines * 0.28, 1.2)
CodeMinHeight == 120

\* maxY - yPos - 0.3
CodeMargin == 30

\* yPos += codeHeight + 0.25
CodeGap == 25

\* const rowHeight = 0.4
RowHeight == 40

\* maxY - yPos - 0.1
TableMargin == 10

\* yPos += tableHeight + 0.2
TableGap == 20

\* Math.min, Math.max
MathMin(a, b) == IF a <= b THEN a ELSE b

MathMax(a, b) == IF a >= b THEN a ELSE b

\* the loop guard with > for >=
ShouldStopStrict(y) == y > MaxY

\* if (yPos >= maxY) break
ShouldStop(y) == y >= MaxY

\* Math.min(bullets.length * 0.4, maxY - yPos)
EstimatedHeight(n, y) == MathMin(n * BulletHeight, MaxY - y)

\* the text height without its cap
TextHeightUncapped(y) == TextHeight

\* Math.min(1.2, maxY - yPos)
TextHeightAt(y) == MathMin(TextHeight, MaxY - y)

\* Math.min(Math.max(codeLines * 0.28, 1.2), maxY - yPos - 0.3)
CodeHeight(n, y) ==
  MathMin(MathMax(n * CodeLineHeight, CodeMinHeight), MaxY - y - CodeMargin)

\* Math.min(rowCount * rowHeight, maxY - yPos - 0.1)
TableHeight(n, y) == MathMin(n * RowHeight, MaxY - y - TableMargin)

\* What the loop reads of an element of parseContentElements: its type and
\* n, which is parseBullets(element.content).length for bullets (0 when no
\* line of the block parses as a bullet), element.code.split('\n').length
\* for code and element.rows.length for a table.
BulletCounts == {0, 1, 5, MaxCount}

CodeLineCounts == {1, 6, MaxCount}

RowCounts == {1, 3, MaxCount}

LayoutElementSet ==
  {[type |-> "bullets", n |-> k] : k \in BulletCounts}
    \cup {[type |-> "text", n |-> 1]}
    \cup {[type |-> "code", n |-> k] : k \in CodeLineCounts}
    \cup {[type |-> "table", n |-> k] : k \in RowCounts}

LayoutInputs == UNION {[1..k -> LayoutElementSet] : k \in 0..MaxElements}

InitLayout ==
  /\ layElements \in LayoutInputs
  /\ layIdx = 1
  /\ yPos = TopOffset
  /\ placements = <<>>
  /\ laypc = "loop"
  /\ PceIdle
  /\ MdIdle
  /\ RestIdle

LayoutFrame == UNCHANGED <<layElements, laypc, pceVars, mdVars, restVars>>

Reached(type) ==
  /\ laypc = "loop"
  /\ layIdx <= Len(layElements)
  /\ ~ShouldStop(yPos)
  /\ layElements[layIdx].type = type

Placement(h) == [elementIndex |-> layIdx, y |-> yPos, height |-> h]

\* if (yPos >= maxY) break;
LayoutBreak ==
  /\ laypc = "loop"
  /\ layIdx <= Len(layElements)
  /\ ShouldStop(yPos)
  /\ laypc' = "done"
  /\ UNCHANGED <<layElements, layIdx, yPos, placements, pceVars, mdVars, restVars>>

\* case 'bullets' with bullets.length > 0
PlaceBullets ==
  /\ Reached("bullets")
  /\ layElements[layIdx].n > 0
  /\ LET h == EstimatedHeight(layElements[layIdx].n, yPos)
     IN  /\ placements' = Append(placements, Placement(h))
         /\ yPos' = yPos + h + BulletGap
  /\ layIdx' = layIdx + 1
  /\ LayoutFrame

\* case 'bullets' with bullets.length = 0: nothing is added, yPos stays
SkipEmptyBullets ==
  /\ Reached("bullets")
  /\ layElements[layIdx].n = 0
  /\ layIdx' = layIdx + 1
  /\ UNCHANGED <<yPos, placements>>
  /\ LayoutFrame

\* case 'text'
PlaceText ==
  /\ Reached("text")
  /\ LET h == TextHeightAt(yPos)
     IN  /\ placements' = Append(placements, Placement(h))
         /\ yPos' = yPos + h + TextGap
  /\ layIdx' = layIdx + 1
  /\ LayoutFrame

\* case 'code'
PlaceCode ==
  /\ Reached("code")
  /\ LET h == CodeHeight(layElements[layIdx].n, yPos)
     IN  /\ placements' = Append(placements, Placement(h))
         /\ yPos' = yPos + h + CodeGap
  /\ layIdx' = layIdx + 1
  /\ LayoutFrame

\* case 'table'
PlaceTable ==
  /\ Reached("table")
  /\ LET h == TableHeight(layElements[layIdx].n, yPos)
     IN  /\ placements' = Append(placements, Placement(h))
         /\ yPos' = yPos + h + TableGap
  /\ layIdx' = layIdx + 1
  /\ LayoutFrame

\* the for loop ends after the last element
LayoutEnd ==
  /\ laypc = "loop"
  /\ layIdx > Len(layElements)
  /\ laypc' = "done"
  /\ UNCHANGED <<layElements, layIdx, yPos, placements, pceVars, mdVars, restVars>>

NextLayout ==
  \/ LayoutBreak
  \/ PlaceBullets
  \/ SkipEmptyBullets
  \/ PlaceText
  \/ PlaceCode
  \/ PlaceTable
  \/ LayoutEnd

SpecLayout == InitLayout /\ [][NextLayout]_vars

-----------------------------------------------------------------------------
(* C10 *)

PlacedIndexes == {placements[k].elementIndex : k \in 1..Len(placements)}

IsEmptyBullets(el) == el.type = "bullets" /\ el.n = 0

\* C10 (as claimed): an element is omitted exactly when yPos >= capacity at
\* the moment it is reached, and then every later one is omitted too: the
\* placed elements are a prefix of the element sequence, and an element is
\* left out only with the cursor at or past capacity.
C10_PlacedIsPrefixCutAtCapacity ==
  /\ (laypc = "loop" /\ placements = <<>>) => yPos = TopOffset
  /\ laypc = "done" =>
       /\ PlacedIndexes = 1..Len(placements)
       /\ Len(placements) < Len(layElements) => yPos >= MaxY


-----------------------------------------------------------------------------
(* C11, C18, C19, C20: vocabulary of the placements *)

ElementOf(p) == layElements[p.elementIndex]

\* the height an element asks for before it is capped by the space left
UncappedHeight(el) ==
  CASE el.type = "bullets" -> el.n * BulletHeight
    [] el.type = "text"    -> TextHeight
    [] el.type = "code"    -> MathMax(el.n * CodeLineHeight, CodeMinHeight)
    [] el.type = "table"   -> el.n * RowHeight

GapOf(el) ==
  CASE el.type = "bullets" -> BulletGap
    [] el.type = "text"    -> TextGap
    [] el.type = "code"    -> CodeGap
    [] el.type = "table"   -> TableGap

\* the margin kept below an element of this type
MarginOf(el) ==
  CASE el.type = "code"  -> CodeMargin
    [] el.type = "table" -> TableMargin
    [] OTHER             -> 0

Overflows(p) == p.y + UncappedHeight(ElementOf(p)) + GapOf(ElementOf(p)) > MaxY

StoppedEarly == laypc = "done" /\ layIdx <= Len(layElements)

C18_PlacedYStrictlyIncreasing ==
  /\ \A k \in 2..Len(placements) : placements[k - 1].y < placements[k].y
  /\ placements # <<>> => placements[Len(placements)].y < yPos

\* C19: every placed element has a strictly positive height; a code
\* element and a table never get a zero or negative height.
C19_PlacedHeightPositive ==
  \A k \in 1..Len(placements) : placements[k].height > 0

\* C20: every placed element lies inside the flow region: its y is at
\* least the top offset and below capacity, and y plus its height is at
\* most capacity.
C20_PlacedInsideFlowRegion ==
  \A k \in 1..Len(placements) :
    /\ placements[k].y >= TopOffset
    /\ placements[k].y < MaxY
    /\ placements[k].y + placements[k].height <= MaxY

\* the loop has finished with an element that ends exactly at capacity and
\* one whose cursor had moved back below the y of the element before it
C20_Witness ==
  /\ laypc = "done"
  /\ \E k \in 1..Len(placements) :
       placements[k].y + placements[k].height = MaxY
  /\ \E k \in 2..Len(placements) : placements[k].y < placements[k - 1].y


-----------------------------------------------------------------------------
(* fixForGoogleSlides *)

\* number of entries of the input archive
MaxEntries == 4

MediaDir == <<"p", "p", "t", "/", "m", "e", "d", "i", "a", "/">>

ImagePrefix == <<"i", "m", "a", "g", "e">>

XmlExt == <<".", "x", "m", "l">>

RelsExt == <<".", "r", "e", "l", "s">>

\* s.endsWith(pat)
EndsWith(s, pat) == StartsWithAt(s, Len(s) - Len(pat) + 1, pat)

\* path.basename(p): the part after the last "/", trailing "/" ignored
BaseName(p) ==
  LET q == IF p # <<>> /\ Last1(p) = "/" THEN SubSeq(p, 1, Len(p) - 1) ELSE p
      slashes == {i \in 1..Len(q) : q[i] = "/"}
  IN  IF slashes = {} THEN q ELSE Suffix(q, Max(slashes) + 1)

\* path.extname(name): from the last "." to the end, empty when there is no
\* "." or the only one is the first character
ExtName(name) ==
  LET dots == {i \in 2..Len(name) : name[i] = "."}
  IN  IF dots = {} THEN <<>> ELSE Suffix(name, Max(dots))

\* text.split(old).join(new)
RECURSIVE SplitJoin(_, _, _)
SplitJoin(text, old, new) ==
  LET i == IndexOf(text, old, 1)
  IN  IF i = 0 THEN text
      ELSE SubSeq(text, 1, i - 1) \o new
             \o SplitJoin(Suffix(text, i + Len(old)), old, new)

\* entry.entryName.startsWith('ppt/media/') && !entry.isDirectory
IsMediaEntry(entry) ==
  StartsWithAt(entry.entryName, 1, MediaDir) /\ ~entry.isDirectory

\* the counter used from 0
NewNameForZeroBased(counter, oldName) ==
  ImagePrefix \o ToDecimal(counter - 1) \o ExtName(oldName)

\* `image${imageCounter}${ext}`
NewNameFor(counter, oldName) ==
  ImagePrefix \o ToDecimal(counter) \o ExtName(oldName)

\* imageRenames as the sequence of its [oldName, newName] pairs in insertion
\* order; Map.prototype.has, get and set
MapHas(map, key) == \E i \in 1..Len(map) : map[i].oldName = key

MapGet(map, key) ==
  map[CHOOSE i \in 1..Len(map) : map[i].oldName = key].newName

MapSet(map, key, value) ==
  IF MapHas(map, key)
  THEN [i \in 1..Len(map) |->
          IF map[i].oldName = key THEN [map[i] EXCEPT !.newName = value]
          ELSE map[i]]
  ELSE Append(map, [oldName |-> key, newName |-> value])

\* the comparison of line 287 left out: every media name is recorded
RecordRenameAlways(map, oldName, newName) == MapSet(map, oldName, newName)

\* if (oldName !== newName) imageRenames.set(oldName, newName)
RecordRename(map, oldName, newName) ==
  IF oldName # newName THEN MapSet(map, oldName, newName) ELSE map

\* imageRenames.forEach((newName, oldName) => text = text.split(..).join(..))
RECURSIVE RewriteText(_, _)
RewriteText(text, map) ==
  IF map = <<>> THEN text
  ELSE RewriteText(SplitJoin(text, map[1].oldName, map[1].newName), Tail(map))

\* lines 304-308: the name under which the entry is added
RenamedEntryName(entry, map) ==
  IF StartsWithAt(entry.entryName, 1, MediaDir)
       /\ MapHas(map, BaseName(entry.entryName))
  THEN MediaDir \o MapGet(map, BaseName(entry.entryName))
  ELSE entry.entryName

\* lines 310-316: the content with which the entry is added
RewrittenData(entryName, data, map) ==
  IF EndsWith(entryName, XmlExt) \/ EndsWith(entryName, RelsExt)
  THEN RewriteText(data, map)
  ELSE data

\* the entries an input archive is made of
eDir == [entryName |-> <<"p", "p", "t", "/", "m", "e", "d", "i", "a", "/", "s", "u", "b", "/">>, isDirectory |-> TRUE, data |-> <<>>]

ePhoto == [entryName |-> <<"p", "p", "t", "/", "m", "e", "d", "i", "a", "/", "p", "h", "o", "t", "o", ".", "p", "n", "g">>, isDirectory |-> FALSE,
           data |-> <<"P">>]

eSubPhoto == [entryName |-> <<"p", "p", "t", "/", "m", "e", "d", "i", "a", "/", "s", "u", "b", "/", "p", "h", "o", "t", "o", ".", "p", "n", "g">>, isDirectory |-> FALSE,
              data |-> <<"Q">>]

eLogo == [entryName |-> <<"p", "p", "t", "/", "m", "e", "d", "i", "a", "/", "l", "o", "g", "o", ".", "p", "n", "g">>, isDirectory |-> FALSE,
          data |-> <<"L">>]

eImage1 == [entryName |-> <<"p", "p", "t", "/", "m", "e", "d", "i", "a", "/", "i", "m", "a", "g", "e", "1", ".", "p", "n", "g">>, isDirectory |-> FALSE,
            data |-> <<"1">>]

eImage2 == [entryName |-> <<"p", "p", "t", "/", "m", "e", "d", "i", "a", "/", "i", "m", "a", "g", "e", "2", ".", "p", "n", "g">>, isDirectory |-> FALSE,
            data |-> <<"2">>]

eSlideXml == [entryName |-> <<"p", "p", "t", "/", "s", "l", "i", "d", "e", "s", "/", "s", ".", "x", "m", "l">>, isDirectory |-> FALSE,
              data |-> <<"p", "h", "o", "t", "o", ".", "p", "n", "g", " ", "l", "o", "g", "o", ".", "p", "n", "g">>]

eSlideRels == [entryName |-> <<"p", "p", "t", "/", "s", "l", "i", "d", "e", "s", "/", "s", ".", "x", "m", "l", ".", "r", "e", "l", "s">>, isDirectory |-> FALSE,
               data |-> <<"i", "m", "a", "g", "e", "2", ".", "p", "n", "g", " ", "i", "m", "a", "g", "e", "1", ".", "p", "n", "g">>]

EntrySet ==
  {eDir, ePhoto, eSubPhoto, eLogo, eImage1, eImage2, eSlideXml, eSlideRels}

\* archives: entries with pairwise distinct names, in any order
Archives ==
  {a \in UNION {[1..k -> EntrySet] : k \in 0..MaxEntries} :
     \A i, j \in 1..Len(a) : i # j => a[i].entryName # a[j].entryName}

PceMdLayIdle == PceIdle /\ MdIdle /\ LayIdle

InitFix ==
  /\ fxIn \in Archives
  /\ fxIdx = 1
  /\ imageCounter = 1
  /\ imageRenames = <<>>
  /\ newZip = <<>>
  /\ fxOut = <<>>
  /\ fxpc = "scan"
  /\ fxReapplied = FALSE
  /\ PceMdLayIdle
  /\ GenIdle
  /\ WsIdle

FixFrame ==
  UNCHANGED <<fxIn, fxReapplied, pceVars, mdVars, layVars, genVars, wsVars>>

\* first entries.forEach, one entry
ScanEntry ==
  /\ fxpc = "scan"
  /\ fxIdx <= Len(fxIn)
  /\ LET entry == fxIn[fxIdx]
         oldName == BaseName(entry.entryName)
     IN  IF IsMediaEntry(entry)
         THEN /\ imageRenames' =
                   RecordRename(imageRenames, oldName,
                                NewNameFor(imageCounter, oldName))
              /\ imageCounter' = imageCounter + 1
         ELSE UNCHANGED <<imageRenames, imageCounter>>
  /\ fxIdx' = fxIdx + 1
  /\ UNCHANGED <<newZip, fxOut, fxpc>>
  /\ FixFrame

\* if (imageRenames.size === 0) { fs.copyFileSync(pptxPath, outputPath) }
CopyUnchanged ==
  /\ fxpc = "scan"
  /\ fxIdx > Len(fxIn)
  /\ imageRenames = <<>>
  /\ fxOut' = fxIn
  /\ fxpc' = "done"
  /\ UNCHANGED <<fxIdx, imageCounter, imageRenames, newZip>>
  /\ FixFrame

\* const newZip = new AdmZip()
StartRewrite ==
  /\ fxpc = "scan"
  /\ fxIdx > Len(fxIn)
  /\ imageRenames # <<>>
  /\ newZip' = <<>>
  /\ fxIdx' = 1
  /\ fxpc' = "rewrite"
  /\ UNCHANGED <<imageCounter, imageRenames, fxOut>>
  /\ FixFrame

\* newZip.addFile(entryName, content).  For a name the new archive already
\* holds, adm-zip either adds a second entry of that name or replaces the data
\* of the one it holds, depending on its version, which the repository does
\* not fix: both outcomes are possible.
AddFile(zip, entry) ==
  LET same == {i \in 1..Len(zip) : zip[i].entryName = entry.entryName}
  IN  IF same = {} THEN {Append(zip, entry)}
      ELSE {Append(zip, entry),
            [zip EXCEPT ![Min(same)].data = entry.data]}

\* second entries.forEach, one entry
RewriteEntry ==
  /\ fxpc = "rewrite"
  /\ fxIdx <= Len(fxIn)
  /\ LET entry == fxIn[fxIdx]
         entryName == RenamedEntryName(entry, imageRenames)
         data == RewrittenData(entryName, entry.data, imageRenames)
     IN  newZip' \in AddFile(newZip, [entryName |-> entryName,
                                      isDirectory |-> entry.isDirectory,
                                      data |-> data])
  /\ fxIdx' = fxIdx + 1
  /\ UNCHANGED <<imageCounter, imageRenames, fxOut, fxpc>>
  /\ FixFrame

\* newZip.writeZip(outputPath)
WriteZip ==
  /\ fxpc = "rewrite"
  /\ fxIdx > Len(fxIn)
  /\ fxOut' = newZip
  /\ fxpc' = "done"
  /\ UNCHANGED <<fxIdx, imageCounter, imageRenames, newZip>>
  /\ FixFrame

\* the caller applies fixForGoogleSlides to the archive it has just written
FixAgain ==
  /\ fxpc = "done"
  /\ ~fxReapplied
  /\ fxIn' = fxOut
  /\ fxIdx' = 1
  /\ imageCounter' = 1
  /\ imageRenames' = <<>>
  /\ newZip' = <<>>
  /\ fxOut' = <<>>
  /\ fxpc' = "scan"
  /\ fxReapplied' = TRUE
  /\ UNCHANGED <<pceVars, mdVars, layVars, genVars, wsVars>>

NextFix ==
  \/ ScanEntry
  \/ CopyUnchanged
  \/ StartRewrite
  \/ RewriteEntry
  \/ WriteZip
  \/ FixAgain

SpecFix == InitFix /\ [][NextFix]_vars


-----------------------------------------------------------------------------
(* C12, C13, C14: vocabulary of the archives *)

MediaOf(archive) == SelectSeq(archive, IsMediaEntry)

IsTextEntry(entry) ==
  EndsWith(entry.entryName, XmlExt) \/ EndsWith(entry.entryName, RelsExt)

\* the name the k-th media entry is to get
AssignedName(k, entry) ==
  ImagePrefix \o ToDecimal(k) \o ExtName(BaseName(entry.entryName))

\* every media entry already has the name of its enumeration position
AlreadyNormalised(archive) ==
  \A k \in 1..Len(MediaOf(archive)) :
    BaseName(MediaOf(archive)[k].entryName) = AssignedName(k, MediaOf(archive)[k])

DistinctBaseNames(archive) ==
  \A i, j \in 1..Len(MediaOf(archive)) :
    i # j => BaseName(MediaOf(archive)[i].entryName)
               # BaseName(MediaOf(archive)[j].entryName)

\* the media entries whose assigned name differs from the name they have
RenamedMedia(archive) ==
  {k \in 1..Len(MediaOf(archive)) :
     BaseName(MediaOf(archive)[k].entryName) # AssignedName(k, MediaOf(archive)[k])}

\* text in which every occurrence of the old name of a renamed media file
\* has become the assigned name of that file, each occurrence rewritten once
RECURSIVE OwnNamesText(_, _)
OwnNamesText(text, archive) ==
  IF text = <<>> THEN <<>>
  ELSE LET hits == {k \in RenamedMedia(archive) :
                      StartsWithAt(text, 1, BaseName(MediaOf(archive)[k].entryName))}
       IN  IF hits = {} THEN <<text[1]>> \o OwnNamesText(Tail(text), archive)
           ELSE LET k == Min(hits)
                    old == BaseName(MediaOf(archive)[k].entryName)
                IN  AssignedName(k, MediaOf(archive)[k])
                      \o OwnNamesText(Suffix(text, Len(old) + 1), archive)

FirstRunDone == fxpc = "done" /\ ~fxReapplied

\* C12: the k-th non-directory entry under ppt/media/ of the input comes out
\* named "image" + k + its extension, the output has as many media entries
\* as the input, and their names are pairwise distinct.
C12_MediaNamedByPosition ==
  FirstRunDone =>
    /\ Len(MediaOf(fxOut)) = Len(MediaOf(fxIn))
    /\ \A k \in 1..Len(MediaOf(fxOut)) :
         k <= Len(MediaOf(fxIn)) =>
           MediaOf(fxOut)[k].entryName = MediaDir \o AssignedName(k, MediaOf(fxIn)[k])
    /\ \A i, j \in 1..Len(MediaOf(fxOut)) :
         i # j => MediaOf(fxOut)[i].entryName # MediaOf(fxOut)[j].entryName

\* C13: in every output entry whose name ends in .xml or .rels, each
\* occurrence of a renamed media file's old basename has become that file's
\* own assigned name (media basenames taken distinct, so that a reference
\* names one file).
C13_ReferencesGetOwnNewName ==
  (FirstRunDone /\ DistinctBaseNames(fxIn)) =>
    \A i \in 1..Len(fxIn) :
      IsTextEntry(fxIn[i]) =>
        \E j \in 1..Len(fxOut) :
          /\ fxOut[j].entryName = fxIn[i].entryName
          /\ fxOut[j].data = OwnNamesText(fxIn[i].data, fxIn)

\* C14: when every media entry of the input already has the name of its
\* enumeration position, the output archive equals the input archive; so
\* does the output of a second application to that output.
C14_NormalisedArchiveUnchanged ==
  (fxpc = "done" /\ AlreadyNormalised(fxIn)) => fxOut = fxIn

\* the second application to an archive with two media entries and an entry
\* of references, all already in place, has finished
C14_Witness ==
  /\ fxpc = "done"
  /\ fxReapplied
  /\ AlreadyNormalised(fxIn)
  /\ Len(MediaOf(fxIn)) >= 2
  /\ \E i \in 1..Len(fxIn) : IsTextEntry(fxIn[i])
  /\ fxOut = fxIn


-----------------------------------------------------------------------------
(* generatePresentation: write the deck, post-process it, delete the temp *)

\* two calls of generatePresentation, as the tool handler of the server
\* starts one per request without waiting for the one before
Calls == {1, 2}

PptxExt == <<".", "p", "p", "t", "x">>

TempExt == <<"-", "t", "e", "m", "p", ".", "p", "p", "t", "x">>

\* outputPath.replace('.pptx', '-temp.pptx')
TempPath(path) == ReplaceFirst(path, PptxExt, TempExt)

pA == <<"a", ".", "p", "p", "t", "x">>

pATemp == <<"a", "-", "t", "e", "m", "p", ".", "p", "p", "t", "x">>

pB == <<"b", ".", "p", "p", "t", "x">>

pUpper == <<"a", ".", "P", "P", "T", "X">>

OutputPaths == {pA, pATemp, pB, pUpper}

AllPaths == OutputPaths \cup {TempPath(p) : p \in OutputPaths}

\* the content of a path: no file, or the deck written by a call
NoFile == {}

DeckOf(c) == {c}

InitGenerate ==
  /\ outputPath \in [Calls -> OutputPaths]
  /\ gpc = [c \in Calls |-> "assembled"]
  /\ files = [p \in AllPaths |-> NoFile]
  /\ steps = [c \in Calls |-> <<>>]
  /\ failure = [c \in Calls |-> "none"]
  /\ fixFault \in [Calls -> BOOLEAN]
  /\ PceMdLayIdle
  /\ FixIdle
  /\ WsIdle

GenFrame ==
  UNCHANGED <<outputPath, fixFault, pceVars, mdVars, layVars, fxVars, wsVars>>

\* const tempPath = ...; await pptx.writeFile({ fileName: tempPath }): the
\* call starts the write and is suspended
StartWrite(c) ==
  /\ gpc[c] = "assembled"
  /\ gpc' = [gpc EXCEPT ![c] = "writing"]
  /\ steps' = [steps EXCEPT ![c] = Append(@, "write-start")]
  /\ UNCHANGED <<files, failure>>
  /\ GenFrame

\* the write of the temp file completes
WriteTemp(c) ==
  /\ gpc[c] = "writing"
  /\ files' = [files EXCEPT ![TempPath(outputPath[c])] = DeckOf(c)]
  /\ gpc' = [gpc EXCEPT ![c] = "written"]
  /\ steps' = [steps EXCEPT ![c] = Append(@, "write-end")]
  /\ UNCHANGED failure
  /\ GenFrame

\* fixForGoogleSlides throws when it cannot read the temp file or the
\* archive cannot be read or written
FixThrowsAt(c) == files[TempPath(outputPath[c])] = NoFile \/ fixFault[c]

\* a handler around lines 906-907 that removes the temp file
FilesAfterThrowCleaned(fs, tempPath) == [fs EXCEPT ![tempPath] = NoFile]

\* the file system when fixForGoogleSlides has thrown: line 907 is not
\* reached and nothing else handles the error
FilesAfterThrow(fs, tempPath) == fs

\* fixForGoogleSlides(tempPath, outputPath): the output path gets the
\* (post-processed) content of the temp path
FilesAfterFix(fs, tempPath, path) == [fs EXCEPT ![path] = fs[tempPath]]

\* fs.unlinkSync(tempPath)
FilesAfterUnlink(fs, tempPath) == [fs EXCEPT ![tempPath] = NoFile]

\* the call resumes after the await: fixForGoogleSlides, fs.unlinkSync and
\* return outputPath run without another call in between
FixAndUnlink(c) ==
  /\ gpc[c] = "written"
  /\ ~FixThrowsAt(c)
  /\ LET tempPath == TempPath(outputPath[c])
     IN  files' = FilesAfterUnlink(
                    FilesAfterFix(files, tempPath, outputPath[c]), tempPath)
  /\ gpc' = [gpc EXCEPT ![c] = "resolved"]
  /\ steps' = [steps EXCEPT ![c] = @ \o <<"fix-start", "fix-end", "unlink">>]
  /\ UNCHANGED failure
  /\ GenFrame

\* the call resumes after the await and fixForGoogleSlides throws: the
\* promise of generatePresentation is rejected with that error
FixThrows(c) ==
  /\ gpc[c] = "written"
  /\ FixThrowsAt(c)
  /\ files' = FilesAfterThrow(files, TempPath(outputPath[c]))
  /\ gpc' = [gpc EXCEPT ![c] = "rejected"]
  /\ steps' = [steps EXCEPT ![c] = Append(@, "fix-start")]
  /\ failure' = [failure EXCEPT ![c] = "fixForGoogleSlides"]
  /\ GenFrame

NextGenerate ==
  \E c \in Calls :
    \/ StartWrite(c)
    \/ WriteTemp(c)
    \/ FixAndUnlink(c)
    \/ FixThrows(c)

SpecGenerate == InitGenerate /\ [][NextGenerate]_vars

-----------------------------------------------------------------------------
(* C15, C16, C17 *)

FinalSteps == <<"write-start", "write-end", "fix-start", "fix-end", "unlink">>

Other(c) == CHOOSE d \in Calls : d # c

\* the other call has not started its final steps
Alone(c) == gpc[Other(c)] = "assembled"

Finished(c) == gpc[c] \in {"resolved", "rejected"}

\* C15: the final steps of a call happen in the order write temp,
\* post-process, delete temp, each after the one before has finished, and
\* when the call resolves the final output file exists and the temp file
\* does not, for every output path.
C15_WriteFixDeleteThenFinalExists ==
  \A c \in Calls :
    /\ steps[c] = SubSeq(FinalSteps, 1, Len(steps[c]))
    /\ (gpc[c] = "resolved" /\ Alone(c)) =>
         /\ steps[c] = FinalSteps
         /\ files[outputPath[c]] # NoFile
         /\ files[TempPath(outputPath[c])] = NoFile

\* C16: two calls with different output paths (each holding ".pptx") and no
\* failure of the file system both succeed, and afterwards both final output
\* files exist, each with the deck of its call.
C16_DifferentPathsDoNotInterfere ==
  ( /\ outputPath[1] # outputPath[2]
    /\ \A c \in Calls : Includes(outputPath[c], PptxExt) /\ ~fixFault[c]
    /\ \A c \in Calls : Finished(c) ) =>
  \A c \in Calls :
    /\ gpc[c] = "resolved"
    /\ files[outputPath[c]] = DeckOf(c)

\* C17: when fixForGoogleSlides fails after the temp file was written, the
\* call is rejected with that error as its only error, the delete-temp step
\* is not executed then or later, and the failing step leaves the file
\* system as it was, the temp file on disk.
C17_FixFailureLeavesTempFile ==
  [][\A c \in Calls :
       /\ (gpc[c] = "written" /\ gpc'[c] = "rejected") =>
            /\ failure'[c] = "fixForGoogleSlides"
            /\ steps'[c] = SubSeq(FinalSteps, 1, 3)
            /\ files' = files
            /\ Alone(c) => files'[TempPath(outputPath[c])] = DeckOf(c)
       /\ gpc[c] = "rejected" =>
            /\ gpc'[c] = "rejected"
            /\ steps'[c] = steps[c]
            /\ failure'[c] = failure[c]]_vars

\* a call alone was rejected by a failure of fixForGoogleSlides and its
\* temp file is on disk
C17_Witness ==
  \E c \in Calls :
    /\ gpc[c] = "rejected"
    /\ Alone(c)
    /\ fixFault[c]
    /\ TempPath(outputPath[c]) # outputPath[c]
    /\ files[TempPath(outputPath[c])] = DeckOf(c)
    /\ files[outputPath[c]] = NoFile


-----------------------------------------------------------------------------
(* C21 *)

IsBlankLine(line) == Trim(line) = <<>>

\* the line the walk has just handled
WalkedLine == finalLines[lineIdx - 1]

\* the blocks as the line just handled leaves them
BlocksFollowLastLine ==
  (pc \in {"walk", "done"} /\ lineIdx > 1) =>
    /\ ~IsPlainLine(WalkedLine) =>
         currentTextBlock = <<>> /\ currentBulletBlock = <<>>
    /\ (IsPlainLine(WalkedLine) /\ IsBulletLine(WalkedLine)) =>
         currentTextBlock = <<>> /\ currentBulletBlock # <<>>
    /\ (IsPlainLine(WalkedLine) /\ ~IsBulletLine(WalkedLine)
          /\ ~IsBlankLine(WalkedLine)) =>
         currentBulletBlock = <<>> /\ currentTextBlock # <<>>
    /\ (IsPlainLine(WalkedLine) /\ ~IsBulletLine(WalkedLine)
          /\ IsBlankLine(WalkedLine)) =>
         currentTextBlock = <<>> /\ currentBulletBlock = <<>>

\* a Text element holds only non-blank non-bullet lines, a Bullets element
\* only bullet lines
ElementsHoldTheirKind ==
  \A i \in 1..Len(elements) :
    /\ elements[i].type = "text" =>
         \A k \in 1..Len(Split(elements[i].content, "\n")) :
           /\ ~IsBlankLine(Split(elements[i].content, "\n")[k])
           /\ ~IsBulletLine(Split(elements[i].content, "\n")[k])
    /\ elements[i].type = "bullets" =>
         \A k \in 1..Len(Split(elements[i].content, "\n")) :
           IsBulletLine(Split(elements[i].content, "\n")[k])

\* C21 (as claimed): the text block and the bullet block are never both
\* non-empty, each is emptied when a blank line, a placeholder line or a line
\* of the other kind is met, both are empty after the end-of-input flush,
\* and emitted Text and Bullets elements hold only lines of their kind.
C21_BlocksExclusiveAndEmptyAtEnd ==
  /\ ~(currentTextBlock # <<>> /\ currentBulletBlock # <<>>)
  /\ BlocksFollowLastLine
  /\ pc = "done" => currentTextBlock = <<>> /\ currentBulletBlock = <<>>
  /\ ElementsHoldTheirKind

\* C21 (amended): the text block and the bullet block are never both
\* non-empty, each is emptied when a blank line, a placeholder line or a line
\* of the other kind is met, the block open at the end of input is emitted as
\* the last element (the block itself is not emptied there), and emitted Text
\* and Bullets elements hold only lines of their kind.
C21_BlocksExclusiveAndEmittedAtEnd ==
  /\ ~(currentTextBlock # <<>> /\ currentBulletBlock # <<>>)
  /\ BlocksFollowLastLine
  /\ (pc = "done" /\ currentTextBlock # <<>>) =>
       /\ elements # <<>>
       /\ elements[Len(elements)].type = "text"
       /\ elements[Len(elements)].content = Trim(Join(currentTextBlock, "\n"))
  /\ (pc = "done" /\ currentBulletBlock # <<>>) =>
       /\ elements # <<>>
       /\ elements[Len(elements)].type = "bullets"
       /\ elements[Len(elements)].content = Join(currentBulletBlock, "\n")
  /\ ElementsHoldTheirKind

\* the walk has ended with a text block open, after a bullet block was
\* emitted when a line of the other kind was met
C21_Witness ==
  /\ pc = "done"
  /\ currentTextBlock # <<>>
  /\ Len(elements) >= 2
  /\ elements[Len(elements) - 1].type = "bullets"
  /\ elements[Len(elements)].type = "text"


-----------------------------------------------------------------------------
(* The WebSocket message handler of the LLM client and the tool handler of *)
(* the generator server                                                    *)

\* two messages on one socket; the handler is async, so the handling of a
\* message can start while another one waits at an await
Messages == {1, 2}

\* what happens to a message on its way
Outcomes ==
  {"bad-message",       \* JSON.parse(msg.toString()) throws
   "chat-throws",       \* puter.ai.chat rejects
   "bad-reply",         \* JSON.parse(raw) throws
   "call-rejected",     \* mcpclient.callTool rejects (transport, protocol)
   "generation-fails",  \* generatePresentation rejects inside the server
   "generated"}         \* generatePresentation resolves

Sent(status, m) == [status |-> status, message |-> m]

InitClient ==
  /\ wsInput \in [Messages -> Outcomes]
  /\ wspc = [m \in Messages |-> "arrived"]
  /\ sent = <<>>
  /\ toolResult = [m \in Messages |-> "none"]
  /\ produced = [m \in Messages |-> FALSE]
  /\ PceMdLayIdle
  /\ FixIdle
  /\ GenIdle

ClientFrame ==
  UNCHANGED <<wsInput, pceVars, mdVars, layVars, fxVars, genVars>>

\* socket.on("message"): JSON.parse(msg), send "processing", call the chat
OnMessage(m) ==
  /\ wspc[m] = "arrived"
  /\ IF wsInput[m] = "bad-message"
     THEN /\ sent' = Append(sent, Sent("error", m))
          /\ wspc' = [wspc EXCEPT ![m] = "handled"]
     ELSE /\ sent' = Append(sent, Sent("processing", m))
          /\ wspc' = [wspc EXCEPT ![m] = "chat"]
  /\ UNCHANGED <<toolResult, produced>>
  /\ ClientFrame

\* await puter.ai.chat(...), JSON.parse(raw), mcpclient.callTool({...})
OnChatReply(m) ==
  /\ wspc[m] = "chat"
  /\ IF wsInput[m] \in {"chat-throws", "bad-reply"}
     THEN /\ sent' = Append(sent, Sent("error", m))
          /\ wspc' = [wspc EXCEPT ![m] = "handled"]
     ELSE /\ sent' = sent
          /\ wspc' = [wspc EXCEPT ![m] = "tool"]
  /\ UNCHANGED <<toolResult, produced>>
  /\ ClientFrame

\* the result of the tool handler: the text result when generatePresentation
\* resolved, the isError result built in the catch when it rejected
HandlerResult(generated) == IF generated THEN "content" ELSE "isError"

\* CallToolRequestSchema handler of the server, case 'generate_presentation'
CallToolHandler(m) ==
  /\ wspc[m] = "tool"
  /\ toolResult[m] = "none"
  /\ wsInput[m] \in {"generation-fails", "generated"}
  /\ produced' = [produced EXCEPT ![m] = wsInput[m] = "generated"]
  /\ toolResult' =
       [toolResult EXCEPT ![m] = HandlerResult(wsInput[m] = "generated")]
  /\ UNCHANGED <<wspc, sent>>
  /\ ClientFrame

\* the status sent when callTool has resolved: the result is not looked at
StatusAfterCall(result) == "done"

\* await mcpclient.callTool resolves: send "done"
OnToolResult(m) ==
  /\ wspc[m] = "tool"
  /\ toolResult[m] # "none"
  /\ sent' = Append(sent, Sent(StatusAfterCall(toolResult[m]), m))
  /\ wspc' = [wspc EXCEPT ![m] = "handled"]
  /\ UNCHANGED <<toolResult, produced>>
  /\ ClientFrame

\* await mcpclient.callTool rejects: catch, send "error"
OnToolRejected(m) ==
  /\ wspc[m] = "tool"
  /\ wsInput[m] = "call-rejected"
  /\ sent' = Append(sent, Sent("error", m))
  /\ wspc' = [wspc EXCEPT ![m] = "handled"]
  /\ UNCHANGED <<toolResult, produced>>
  /\ ClientFrame

NextClient ==
  \E m \in Messages :
    \/ OnMessage(m)
    \/ OnChatReply(m)
    \/ CallToolHandler(m)
    \/ OnToolResult(m)
    \/ OnToolRejected(m)

SpecClient == InitClient /\ [][NextClient]_vars

-----------------------------------------------------------------------------
(* C22 *)

SentAt(status, m) == {k \in 1..Len(sent) : sent[k] = Sent(status, m)}

\* C22: "done" is sent for a message only if the tool call produced the
\* presentation; when generation fails inside the server the client sends
\* "error" and never "done"; and "done" is preceded by "processing" for the
\* same message.
C22_DoneOnlyWhenGenerated ==
  \A m \in Messages :
    /\ SentAt("done", m) # {} => produced[m]
    /\ (wspc[m] = "handled" /\ toolResult[m] = "isError") =>
         SentAt("error", m) # {} /\ SentAt("done", m) = {}
    /\ \A k \in SentAt("done", m) :
         \E j \in SentAt("processing", m) : j < k

=============================================================================
